---- MODULE Spec2Model ----
(***************************************************************************)
(* The Restricted Boltzmann Machine of src/src/chap12_RBM/rbm.py: the      *)
(* constructor, _sigmoid, _sample_binary, train (CD-1) and sample (Gibbs). *)
(*                                                                         *)
(* Reals are fixed-point integers: the float 1.0 is One, so a probability  *)
(* is an integer in 0..One and a weight is an integer number of 1/One.     *)
(* Arrays are sequences; a matrix is a sequence of rows.                   *)
(***************************************************************************)
EXTENDS Integers, Sequences, FiniteSets, TLC

VARIABLES
    pc,         \* position of the single Python thread
    args,       \* the arguments of RBM(n_hidden, n_observe)
    attrs,      \* names of the attributes that exist on the instance
    self,       \* values of the instance attributes (meaningful for names in attrs)
    err,        \* exception raised by the last call, "none" if it returned
    done,       \* the call that returned or raised last, "none" while a call runs
    data,       \* the caller's array passed to train, one flattened sample per row
    data_flat,  \* train's local data_flat
    is_view,    \* whether data_flat shares the memory of data
    loc,        \* train's locals
    g,          \* sample's locals
    ret,        \* value returned by the last sample()
    prim,       \* argument and result of a direct _sample_binary call
    data0,      \* history: the caller's array when train was called
    start,      \* history: W, b_v, b_h when the current batch began
    trace,      \* history: the statements executed in the current batch
    seen,       \* history: the batches taken in the current epoch
    counts      \* history: draws budgeted so far; epochs and updates of this train call

vars == <<pc, args, attrs, self, err, done, data, data_flat, is_view, loc, g, ret, prim,
          data0, start, trace, seen, counts>>

(***************************************************************************)
(* Bounds of the model.                                                    *)
(***************************************************************************)
\* largest layer size passed to the constructor
MaxUnits == 2
\* largest number of entries (rows times columns) of a training set
MaxCells == 3
\* longest probability array passed directly to _sample_binary
MaxProbs == 3
\* train's batch_size (100 at rbm.py:125), scaled so that a training set of
\* MaxCells rows still splits into a full batch and a smaller last batch
batch_size == 2
\* train's epochs (10 at rbm.py:123), scaled
epochs == 2
\* sample's number of Gibbs iterations (1000 at rbm.py:191), scaled
gibbs_steps == 2
\* Bernoulli draws (rows times units, every epoch) of all the train calls made on
\* one instance
MaxDraws == 12

(***************************************************************************)
(* Numbers.                                                                *)
(***************************************************************************)
\* the float 1.0 in fixed point
One == 100

\* learning_rate = 0.1
learning_rate == One \div 10

\* reshape(28, 28)
img_rows == 28
img_cols == 28

Min(a, b) == IF a < b THEN a ELSE b

RECURSIVE SumSeq(_)
SumSeq(s) == IF s = <<>> THEN 0 ELSE Head(s) + SumSeq(Tail(s))

\* 1/(1+e^(-x)) at x = 0, 1, 2, ... 6 (times One), linear in between
SigmoidKnots == <<50, 73, 88, 95, 98, 99, 99>>

\* _sigmoid for one entry, x >= 0 and below the point where float64 rounds to 1.0
SigmoidPos(x) ==
    LET k == x \div One
        f == x % One
    IN  IF k >= 6 THEN One - 1
        ELSE Min(One - 1,
                 SigmoidKnots[k + 1]
                   + ((SigmoidKnots[k + 2] - SigmoidKnots[k + 1]) * f) \div One)

\* _sigmoid for one entry.  In float64, 1 + exp(-x) rounds to 1 from x = 37 on, so the
\* result is exactly 1.0; exp(-x) overflows to inf below x = -709, so the result is
\* exactly 0.0; in between the result is strictly inside (0, 1).
Sigmoid1(x) ==
    IF x >= 37 * One THEN One
    ELSE IF x <= -710 * One THEN 0
    ELSE IF x >= 0 THEN SigmoidPos(x)
    ELSE IF -x >= 37 * One THEN 1
    ELSE One - SigmoidPos(-x)

\* _sigmoid on a vector and on a matrix
SigmoidV(xs) == [i \in 1..Len(xs) |-> Sigmoid1(xs[i])]

_sigmoid(M) == [r \in 1..Len(M) |-> SigmoidV(M[r])]

(***************************************************************************)
(* Arrays.                                                                 *)
(***************************************************************************)
Zeros(n) == [i \in 1..n |-> 0]

\* the binary vectors of length n
BinVecs(n) == [1..n -> {0, 1}]

\* np.dot of a matrix A (rows of length k) with a k x c matrix B
Dot(A, B, k, c) ==
    [r \in 1..Len(A) |-> [j \in 1..c |-> SumSeq([i \in 1..k |-> A[r][i] * B[i][j]])]]

\* M.T for an r x c matrix
Transpose(M, r, c) == [j \in 1..c |-> [i \in 1..r |-> M[i][j]]]

\* M + b, the vector b broadcast over the rows of M
AddRow(M, b) == [r \in 1..Len(M) |-> [j \in 1..Len(b) |-> M[r][j] + b[j]]]

\* the permutations of a sequence
Perms(s) ==
    {t \in [1..Len(s) -> {s[i] : i \in 1..Len(s)}] :
        \E f \in [1..Len(s) -> 1..Len(s)] :
            /\ \A i, j \in 1..Len(s) : f[i] = f[j] => i = j
            /\ \A i \in 1..Len(s) : t[i] = s[f[i]]}

\* the slice with its end included
SliceInclusive(s, i, j) == SubSeq(s, i + 1, Min(j + 1, Len(s)))

\* s[i:j] of Python, 0-based, j exclusive and clipped to the length
Slice(s, i, j) == SubSeq(s, i + 1, Min(j, Len(s)))

(***************************************************************************)
(* _sample_binary.                                                         *)
(***************************************************************************)
\* the check without its lower bound
AboveOne(ps) == \E i \in 1..Len(ps) : ps[i] > One

\* np.any(probs < 0) or np.any(probs > 1), on a flat array
OutOfRange(ps) == (\E i \in 1..Len(ps) : ps[i] < 0) \/ (\E i \in 1..Len(ps) : ps[i] > One)

\* a draw that compares a uniform number with p strictly, so that p = 1 can give 0
Binomial1Strict(p) == IF p = 0 THEN {0} ELSE {0, 1}

\* the values np.random.binomial(1, p) can return for one entry, 0 <= p <= 1
Binomial1(p) == IF p = 0 THEN {0} ELSE IF p = One THEN {1} ELSE {0, 1}

\* the arrays np.random.binomial(1, probs) can return for a flat array
BinomialV(ps) == {s \in BinVecs(Len(ps)) : \A i \in 1..Len(ps) : s[i] \in Binomial1(ps[i])}

\* ... and for a matrix with c columns
BinomialM(P, c) ==
    {S \in [1..Len(P) -> BinVecs(c)] : \A r \in 1..Len(P) : S[r] \in BinomialV(P[r])}

\* np.any(probs < 0) or np.any(probs > 1), on a matrix
OutOfRangeM(P) == \E r \in 1..Len(P) : OutOfRange(P[r])

(***************************************************************************)
(* Python values passed to the constructor.                                *)
(***************************************************************************)
PyInt(n) == [kind |-> "int", val |-> n]

\* True and False; as numbers they are 1 and 0
PyBool(b) == [kind |-> "bool", val |-> b]

\* a float, val is the value times 10
PyFloat(tenths) == [kind |-> "float", val |-> tenths]

PyStr == [kind |-> "str", val |-> 0]

PyNone == [kind |-> "NoneType", val |-> 0]

\* the values a caller passes for n_hidden and n_observe
ArgValues ==
    {PyInt(n) : n \in -1..MaxUnits} \cup {PyBool(0), PyBool(1)}
        \cup {PyFloat(-5), PyFloat(15), PyFloat(20)} \cup {PyStr, PyNone}

\* isinstance(x, int): bool is a subclass of int
IsInstanceInt(x) == x.kind \in {"int", "bool"}

\* the check with >= in place of >
IsNonNegativeInt(x) == IsInstanceInt(x) /\ x.val >= 0

\* isinstance(x, int) and x > 0; the comparison is evaluated only for an int
IsPositiveInt(x) == IsInstanceInt(x) /\ x.val > 0

\* the values np.random.normal can return for one weight
InitWeights == {One \div 10}

\* the arrays np.random.normal(..., size=(r, c)) can return
NormalM(r, c) == [1..r -> [1..c -> InitWeights]]

NoAttrs ==
    [n_hidden |-> PyNone, n_observe |-> PyNone, W |-> <<>>, Wv |-> <<>>, Wh |-> <<>>,
     b_h |-> <<>>, b_v |-> <<>>]

AllAttrs == {"n_hidden", "n_observe", "W", "Wv", "Wh", "b_h", "b_v"}

NoLoc ==
    [epoch |-> 0, i |-> 0, v0 |-> <<>>, h0_prob |-> <<>>, h0_sample |-> <<>>,
     v1_prob |-> <<>>, v1_sample |-> <<>>, h1_prob |-> <<>>,
     dW |-> <<>>, db_v |-> <<>>, db_h |-> <<>>]

NoG == [k |-> 0, v |-> <<>>, h_prob |-> <<>>, h_sample |-> <<>>, v_prob |-> <<>>]

NoPrim == [probs |-> <<>>, out |-> <<>>]

NoStart == [W |-> <<>>, b_v |-> <<>>, b_h |-> <<>>]

NoCounts == [draws |-> 0, epochs |-> 0, updates |-> 0]

trainVars == <<data, data_flat, is_view, loc, data0, start, trace, seen, counts>>

\* the attributes with the sizes of the two bias vectors exchanged
EngineSwappedBiases(h, o, W1) ==
    [n_hidden  |-> h,
     n_observe |-> o,
     W         |-> W1,
     Wv        |-> <<Zeros(o.val)>>,
     Wh        |-> <<Zeros(h.val)>>,
     b_h       |-> Zeros(o.val),
     b_v       |-> Zeros(h.val)]

\* the attributes rbm.py:27-68 leave on the instance; W1 is the draw of rbm.py:59
Engine(h, o, W1) ==
    [n_hidden  |-> h,
     n_observe |-> o,
     W         |-> W1,
     Wv        |-> <<Zeros(o.val)>>,
     Wh        |-> <<Zeros(h.val)>>,
     b_h       |-> Zeros(h.val),
     b_v       |-> Zeros(o.val)]

\* nothing has been called yet
NoCall ==
    /\ err = "none"
    /\ data = <<>>
    /\ data_flat = <<>>
    /\ is_view = FALSE
    /\ loc = NoLoc
    /\ g = NoG
    /\ ret = <<>>
    /\ prim = NoPrim
    /\ data0 = <<>>
    /\ start = NoStart
    /\ trace = <<>>
    /\ seen = <<>>
    /\ counts = NoCounts

\* before RBM(...) is called
InitNew ==
    /\ pc = "new"
    /\ args = [n_hidden |-> PyNone, n_observe |-> PyNone]
    /\ attrs = {}
    /\ self = NoAttrs
    /\ done = "none"
    /\ NoCall

\* an instance as RBM(h, o) leaves it, for layer sizes h and o in 1..MaxUnits
Init ==
    /\ pc = "idle"
    /\ \E h \in 1..MaxUnits, o \in 1..MaxUnits :
         /\ args = [n_hidden |-> PyInt(h), n_observe |-> PyInt(o)]
         /\ \E W1 \in NormalM(o, h) : self = Engine(PyInt(h), PyInt(o), W1)
    /\ attrs = AllAttrs
    /\ done = "__init__"
    /\ NoCall

(***************************************************************************)
(* RBM.__init__                                                            *)
(***************************************************************************)
\* the call RBM(n_hidden, n_observe)
Construct ==
    /\ pc = "new"
    /\ \E h \in ArgValues, o \in ArgValues : args' = [n_hidden |-> h, n_observe |-> o]
    /\ pc' = "init_check_hidden"
    /\ UNCHANGED <<attrs, self, err, done, g, ret, prim>>
    /\ UNCHANGED trainVars

\* rbm.py:22-23
InitCheckHidden ==
    /\ pc = "init_check_hidden"
    /\ IF ~IsPositiveInt(args.n_hidden)
         THEN pc' = "raised" /\ err' = "ValueError" /\ done' = "__init__"
         ELSE pc' = "init_check_observe" /\ err' = err /\ done' = done
    /\ UNCHANGED <<args, attrs, self, g, ret, prim>>
    /\ UNCHANGED trainVars

\* rbm.py:24-25
InitCheckObserve ==
    /\ pc = "init_check_observe"
    /\ IF ~IsPositiveInt(args.n_observe)
         THEN pc' = "raised" /\ err' = "ValueError" /\ done' = "__init__"
         ELSE pc' = "init_params" /\ err' = err /\ done' = done
    /\ UNCHANGED <<args, attrs, self, g, ret, prim>>
    /\ UNCHANGED trainVars

\* rbm.py:27-68: the attribute assignments.  W is assigned twice (rbm.py:32 and
\* rbm.py:59), the second draw is the one that stays.
InitParams ==
    /\ pc = "init_params"
    /\ \E W1 \in NormalM(args.n_observe.val, args.n_hidden.val) :
         self' = Engine(args.n_hidden, args.n_observe, W1)
    /\ attrs' = AllAttrs
    /\ pc' = "idle"
    /\ done' = "__init__"
    /\ UNCHANGED <<args, err, g, ret, prim>>
    /\ UNCHANGED trainVars

\* layer sizes as numbers
NH == self.n_hidden.val

NV == self.n_observe.val

(***************************************************************************)
(* RBM.train                                                               *)
(***************************************************************************)
\* the training sets a caller passes: n rows of w binary entries
DataSets(n, w) == [1..n -> BinVecs(w)]

n_samples == Len(data_flat)

\* the entries train draws with _sample_binary for a training set of n rows of
\* width w: h0_sample and v1_sample for every row, every epoch
Draws(n, w) == epochs * n * (w + NH)

\* rbm.py:117-125.  data.reshape(data.shape[0], -1) returns a view of the caller's
\* memory when the array's layout allows it (any contiguous array) and a copy
\* otherwise; each row of data_flat holds the entries of one sample in order.
Train ==
    /\ pc = "idle"
    /\ \E n \in 1..MaxCells, w \in 1..MaxUnits :
         /\ n * w <= MaxCells
         /\ counts.draws + Draws(n, w) <= MaxDraws
         /\ counts' = [draws   |-> counts.draws + Draws(n, w),
                       epochs  |-> 0,
                       updates |-> 0]
         /\ \E d \in DataSets(n, w), view \in BOOLEAN :
              /\ data' = d
              /\ data0' = d
              /\ data_flat' = d
              /\ is_view' = view
    /\ loc' = NoLoc
    /\ start' = NoStart
    /\ trace' = <<>>
    /\ seen' = <<>>
    /\ err' = "none"
    /\ done' = "none"
    /\ pc' = "train_epoch"
    /\ UNCHANGED <<args, attrs, self, g, ret, prim>>

\* rbm.py:128-131: another epoch; np.random.shuffle reorders the rows of data_flat
\* in place, which reorders the caller's array when data_flat is a view of it
TrainShuffle ==
    /\ pc = "train_epoch"
    /\ loc.epoch < epochs
    /\ \E p \in Perms(data_flat) :
         /\ data_flat' = p
         /\ data' = IF is_view THEN p ELSE data
    /\ loc' = [NoLoc EXCEPT !.epoch = loc.epoch, !.i = 0]
    /\ seen' = <<>>
    /\ pc' = "train_batch"
    /\ UNCHANGED <<args, done, attrs, self, err, is_view, g, ret, prim, data0, start, trace,
                   counts>>

\* rbm.py:128: range(epochs) is exhausted, train returns None
TrainReturn ==
    /\ pc = "train_epoch"
    /\ loc.epoch >= epochs
    /\ loc' = NoLoc
    /\ data_flat' = <<>>
    /\ pc' = "idle"
    /\ done' = "train"
    /\ UNCHANGED <<args, attrs, self, err, data, is_view, g, ret, prim, data0, start, trace,
                   seen, counts>>

\* rbm.py:134-139: the next batch, as floats
TrainTakeBatch ==
    /\ pc = "train_batch"
    /\ loc.i < n_samples
    /\ loc' = [NoLoc EXCEPT !.epoch = loc.epoch, !.i = loc.i,
                            !.v0 = Slice(data_flat, loc.i, loc.i + batch_size)]
    /\ seen' = Append(seen, Slice(data_flat, loc.i, loc.i + batch_size))
    /\ start' = [W |-> self.W, b_v |-> self.b_v, b_h |-> self.b_h]
    /\ trace' = <<>>
    /\ pc' = "h0_prob"
    /\ UNCHANGED <<args, done, attrs, self, err, data, data_flat, is_view, g, ret, prim, data0,
                   counts>>

\* rbm.py:134: range(0, n_samples, batch_size) is exhausted, the epoch ends
TrainEpochEnd ==
    /\ pc = "train_batch"
    /\ loc.i >= n_samples
    /\ loc' = [NoLoc EXCEPT !.epoch = loc.epoch + 1]
    /\ counts' = [counts EXCEPT !.epochs = counts.epochs + 1]
    /\ pc' = "train_epoch"
    /\ UNCHANGED <<args, done, attrs, self, err, data, data_flat, is_view, g, ret, prim, data0,
                   start, trace, seen>>

\* an exception leaves train: its locals are gone, the instance and the caller's
\* array stay as they are
TrainRaise ==
    /\ err' = "ValueError"
    /\ done' = "train"
    /\ loc' = NoLoc
    /\ data_flat' = <<>>
    /\ pc' = "idle"
    /\ UNCHANGED <<args, attrs, self, data, is_view, g, ret, prim, data0, start, trace,
                   seen, counts>>

\* what a statement of the batch body leaves alone
BatchFrame == UNCHANGED <<args, done, attrs, err, data, data_flat, is_view, g, ret, prim, data0,
                          start, seen, counts>>

\* rbm.py:144.  np.dot raises ValueError when the rows of v0 are not n_observe wide.
TrainH0Prob ==
    /\ pc = "h0_prob"
    /\ IF Len(loc.v0[1]) # NV
         THEN TrainRaise
         ELSE /\ loc' = [loc EXCEPT !.h0_prob =
                             _sigmoid(AddRow(Dot(loc.v0, self.W, NV, NH), self.b_h))]
              /\ trace' = Append(trace, "h0_prob")
              /\ pc' = "h0_sample"
              /\ UNCHANGED self
              /\ BatchFrame

\* rbm.py:147
TrainH0Sample ==
    /\ pc = "h0_sample"
    /\ IF OutOfRangeM(loc.h0_prob)
         THEN TrainRaise
         ELSE /\ \E s \in BinomialM(loc.h0_prob, NH) : loc' = [loc EXCEPT !.h0_sample = s]
              /\ trace' = Append(trace, "h0_sample")
              /\ pc' = "v1_prob"
              /\ UNCHANGED self
              /\ BatchFrame

\* rbm.py:153
TrainV1Prob ==
    /\ pc = "v1_prob"
    /\ loc' = [loc EXCEPT !.v1_prob =
                   _sigmoid(AddRow(Dot(loc.h0_sample, Transpose(self.W, NV, NH), NH, NV),
                                   self.b_v))]
    /\ trace' = Append(trace, "v1_prob")
    /\ pc' = "v1_sample"
    /\ UNCHANGED self
    /\ BatchFrame

\* rbm.py:156
TrainV1Sample ==
    /\ pc = "v1_sample"
    /\ IF OutOfRangeM(loc.v1_prob)
         THEN TrainRaise
         ELSE /\ \E s \in BinomialM(loc.v1_prob, NV) : loc' = [loc EXCEPT !.v1_sample = s]
              /\ trace' = Append(trace, "v1_sample")
              /\ pc' = "h1_prob"
              /\ UNCHANGED self
              /\ BatchFrame

\* the negative phase with h1 sampled like h0
TrainH1Resampled ==
    /\ pc = "h1_prob"
    /\ \E s \in BinomialM(_sigmoid(AddRow(Dot(loc.v1_sample, self.W, NV, NH), self.b_h)), NH) :
         loc' = [loc EXCEPT !.h1_prob = [r \in 1..Len(s) |-> [j \in 1..NH |-> One * s[r][j]]]]
    /\ trace' = Append(trace, "h1_prob")
    /\ pc' = "dW"
    /\ UNCHANGED self
    /\ BatchFrame

\* rbm.py:159: h1 stays a probability
TrainH1Prob ==
    /\ pc = "h1_prob"
    /\ loc' = [loc EXCEPT !.h1_prob =
                   _sigmoid(AddRow(Dot(loc.v1_sample, self.W, NV, NH), self.b_h))]
    /\ trace' = Append(trace, "h1_prob")
    /\ pc' = "dW"
    /\ UNCHANGED self
    /\ BatchFrame

\* np.dot(v0.T, h0_sample) - np.dot(v1_sample.T, h1_prob): v0, h0_sample and v1_sample
\* hold the floats 0.0 and 1.0, h1_prob holds probabilities
GradW(v0, h0_sample, v1_sample, h1_prob, nv, nh) ==
    [i \in 1..nv |-> [j \in 1..nh |->
        SumSeq([r \in 1..Len(v0) |->
                   One * v0[r][i] * h0_sample[r][j] - v1_sample[r][i] * h1_prob[r][j]])]]

\* np.sum(v0 - v1_sample, axis=0)
GradBv(v0, v1_sample, nv) ==
    [i \in 1..nv |-> SumSeq([r \in 1..Len(v0) |-> One * (v0[r][i] - v1_sample[r][i])])]

\* np.sum(h0_sample - h1_prob, axis=0)
GradBh(h0_sample, h1_prob, nh) ==
    [j \in 1..nh |->
        SumSeq([r \in 1..Len(h0_sample) |-> One * h0_sample[r][j] - h1_prob[r][j]])]

\* learning_rate * x / batch_size
Step(x) == (learning_rate * x) \div (One * batch_size)

\* rbm.py:163
TrainGradW ==
    /\ pc = "dW"
    /\ loc' = [loc EXCEPT !.dW =
                   GradW(loc.v0, loc.h0_sample, loc.v1_sample, loc.h1_prob, NV, NH)]
    /\ trace' = Append(trace, "dW")
    /\ pc' = "db_v"
    /\ UNCHANGED self
    /\ BatchFrame

\* rbm.py:166
TrainGradBv ==
    /\ pc = "db_v"
    /\ loc' = [loc EXCEPT !.db_v = GradBv(loc.v0, loc.v1_sample, NV)]
    /\ trace' = Append(trace, "db_v")
    /\ pc' = "db_h"
    /\ UNCHANGED self
    /\ BatchFrame

\* rbm.py:169
TrainGradBh ==
    /\ pc = "db_h"
    /\ loc' = [loc EXCEPT !.db_h = GradBh(loc.h0_sample, loc.h1_prob, NH)]
    /\ trace' = Append(trace, "db_h")
    /\ pc' = "W"
    /\ UNCHANGED self
    /\ BatchFrame

\* rbm.py:173: self.W += learning_rate * dW / batch_size
TrainUpdateW ==
    /\ pc = "W"
    /\ self' = [self EXCEPT !.W =
                    [i \in 1..NV |-> [j \in 1..NH |-> self.W[i][j] + Step(loc.dW[i][j])]]]
    /\ trace' = Append(trace, "W")
    /\ pc' = "b_v"
    /\ UNCHANGED loc
    /\ BatchFrame

\* rbm.py:176: self.b_v += learning_rate * db_v / batch_size
TrainUpdateBv ==
    /\ pc = "b_v"
    /\ self' = [self EXCEPT !.b_v = [i \in 1..NV |-> self.b_v[i] + Step(loc.db_v[i])]]
    /\ trace' = Append(trace, "b_v")
    /\ pc' = "b_h"
    /\ UNCHANGED loc
    /\ BatchFrame

\* the hidden bias rebound to its sum with the visible gradient, which numpy
\* broadcasts when one of the two has a single entry
TrainUpdateBhFromBv ==
    /\ pc = "b_h"
    /\ self' = [self EXCEPT !.b_h =
                    [j \in 1..(IF NH > NV THEN NH ELSE NV) |->
                        self.b_h[Min(j, NH)] + Step(loc.db_v[Min(j, NV)])]]
    /\ trace' = Append(trace, "b_h")
    /\ loc' = [NoLoc EXCEPT !.epoch = loc.epoch, !.i = loc.i + batch_size]
    /\ counts' = [counts EXCEPT !.updates = counts.updates + 1]
    /\ pc' = "train_batch"
    /\ start' = NoStart
    /\ UNCHANGED <<args, done, attrs, err, data, data_flat, is_view, g, ret, prim, data0, seen>>

\* rbm.py:179: self.b_h += learning_rate * db_h / batch_size, then the next i of
\* range(0, n_samples, batch_size)
TrainUpdateBh ==
    /\ pc = "b_h"
    /\ self' = [self EXCEPT !.b_h = [j \in 1..NH |-> self.b_h[j] + Step(loc.db_h[j])]]
    /\ trace' = Append(trace, "b_h")
    /\ loc' = [NoLoc EXCEPT !.epoch = loc.epoch, !.i = loc.i + batch_size]
    /\ counts' = [counts EXCEPT !.updates = counts.updates + 1]
    /\ pc' = "train_batch"
    /\ start' = NoStart
    /\ UNCHANGED <<args, done, attrs, err, data, data_flat, is_view, g, ret, prim, data0, seen>>

(***************************************************************************)
(* RBM.sample                                                              *)
(***************************************************************************)
sampleFrame == UNCHANGED <<args, done, attrs, self, prim>> /\ UNCHANGED trainVars

\* what the end of sample leaves alone
sampleEndFrame == UNCHANGED <<args, attrs, self, prim>> /\ UNCHANGED trainVars

\* rbm.py:187: v = np.random.binomial(1, 0.5, self.n_observe).  The history of an
\* earlier train call, and the array its caller holds, are no longer followed.
Sample ==
    /\ pc = "idle"
    /\ \E v \in BinVecs(NV) : g' = [NoG EXCEPT !.v = v]
    /\ err' = "none"
    /\ done' = "none"
    /\ pc' = "h_prob"
    /\ data' = <<>>
    /\ data0' = <<>>
    /\ is_view' = FALSE
    /\ counts' = [NoCounts EXCEPT !.draws = counts.draws]
    /\ seen' = <<>>
    /\ trace' = <<>>
    /\ UNCHANGED <<args, attrs, self, prim, ret, data_flat, loc, start>>

\* an exception leaves sample
SampleRaise ==
    /\ err' = "ValueError"
    /\ done' = "sample"
    /\ g' = NoG
    /\ pc' = "idle"
    /\ UNCHANGED ret
    /\ sampleEndFrame

\* rbm.py:191-193: another iteration of range(1000)
SampleHProb ==
    /\ pc = "h_prob"
    /\ g.k < gibbs_steps
    /\ g' = [g EXCEPT !.h_prob =
                 _sigmoid(AddRow(Dot(<<g.v>>, self.W, NV, NH), self.b_h))[1]]
    /\ pc' = "h_sample"
    /\ UNCHANGED <<err, ret>>
    /\ sampleFrame

\* rbm.py:196
SampleHSample ==
    /\ pc = "h_sample"
    /\ IF OutOfRange(g.h_prob)
         THEN SampleRaise
         ELSE /\ \E s \in BinomialV(g.h_prob) : g' = [g EXCEPT !.h_sample = s]
              /\ pc' = "v_prob"
              /\ UNCHANGED <<err, ret>>
              /\ sampleFrame

\* rbm.py:199
SampleVProb ==
    /\ pc = "v_prob"
    /\ g' = [g EXCEPT !.v_prob =
                 _sigmoid(AddRow(Dot(<<g.h_sample>>, Transpose(self.W, NV, NH), NH, NV),
                                 self.b_v))[1]]
    /\ pc' = "v"
    /\ UNCHANGED <<err, ret>>
    /\ sampleFrame

\* the step keeping its probabilities in the visible bias
SampleVStored ==
    /\ pc = "v"
    /\ \E s \in BinomialV(g.v_prob) : g' = [NoG EXCEPT !.k = g.k + 1, !.v = s]
    /\ self' = [self EXCEPT !.b_v = g.v_prob]
    /\ pc' = "h_prob"
    /\ UNCHANGED <<args, done, attrs, prim, err, ret>>
    /\ UNCHANGED trainVars

\* rbm.py:202
SampleV ==
    /\ pc = "v"
    /\ IF OutOfRange(g.v_prob)
         THEN SampleRaise
         ELSE /\ \E s \in BinomialV(g.v_prob) :
                   g' = [NoG EXCEPT !.k = g.k + 1, !.v = s]
              /\ pc' = "h_prob"
              /\ UNCHANGED <<err, ret>>
              /\ sampleFrame

\* v.reshape(r, c): the rows of the r x c array
Reshape(v, r, c) == [i \in 1..r |-> [j \in 1..c |-> v[(i - 1) * c + j]]]

\* rbm.py:205: return v.reshape(28, 28); reshape raises ValueError unless v has
\* 28 * 28 entries
SampleReturn ==
    /\ pc = "h_prob"
    /\ g.k >= gibbs_steps
    /\ IF Len(g.v) # img_rows * img_cols
         THEN SampleRaise
         ELSE /\ ret' = Reshape(g.v, img_rows, img_cols)
              /\ done' = "sample"
              /\ g' = NoG
              /\ pc' = "idle"
              /\ UNCHANGED err
              /\ sampleEndFrame

(***************************************************************************)
(* _sample_binary called directly                                          *)
(***************************************************************************)
\* -0.1, 0, 0.5, 1 and 1.5
ProbValues == {-(One \div 10), 0, One \div 2, One, One + One \div 2}

ProbArrays == UNION {[1..n -> ProbValues] : n \in 0..MaxProbs}

primFrame == UNCHANGED <<args, attrs, self, g, ret>> /\ UNCHANGED trainVars

\* the call self._sample_binary(probs)
SampleBinary ==
    /\ pc = "idle"
    /\ \E ps \in ProbArrays : prim' = [probs |-> ps, out |-> <<>>]
    /\ err' = "none"
    /\ done' = "none"
    /\ pc' = "sb_check"
    /\ primFrame

\* rbm.py:90-91
SampleBinaryCheck ==
    /\ pc = "sb_check"
    /\ IF OutOfRange(prim.probs)
         THEN pc' = "idle" /\ err' = "ValueError" /\ done' = "_sample_binary"
         ELSE pc' = "sb_draw" /\ err' = err /\ done' = done
    /\ UNCHANGED prim
    /\ primFrame

\* rbm.py:94
SampleBinaryDraw ==
    /\ pc = "sb_draw"
    /\ \E s \in BinomialV(prim.probs) : prim' = [prim EXCEPT !.out = s]
    /\ pc' = "idle"
    /\ done' = "_sample_binary"
    /\ UNCHANGED err
    /\ primFrame

(***************************************************************************)
(* Specifications                                                          *)
(***************************************************************************)
\* the constructor, called with any arguments
NextInit ==
    \/ Construct
    \/ InitCheckHidden
    \/ InitCheckObserve
    \/ InitParams

SpecInit == InitNew /\ [][NextInit]_vars

\* an instance is trained and sampled
Next ==
    \/ Train
    \/ TrainShuffle
    \/ TrainReturn
    \/ TrainTakeBatch
    \/ TrainEpochEnd
    \/ TrainH0Prob
    \/ TrainH0Sample
    \/ TrainV1Prob
    \/ TrainV1Sample
    \/ TrainH1Prob
    \/ TrainGradW
    \/ TrainGradBv
    \/ TrainGradBh
    \/ TrainUpdateW
    \/ TrainUpdateBv
    \/ TrainUpdateBh
    \/ Sample
    \/ SampleHProb
    \/ SampleHSample
    \/ SampleVProb
    \/ SampleV
    \/ SampleReturn

Spec == Init /\ [][Next]_vars

\* the sampling primitive is called on an instance, with any probability array
NextPrim ==
    \/ SampleBinary
    \/ SampleBinaryCheck
    \/ SampleBinaryDraw

SpecPrim == Init /\ [][NextPrim]_vars

(***************************************************************************)
(* Properties                                                              *)
(***************************************************************************)
RECURSIVE Concat(_)
Concat(ss) == IF ss = <<>> THEN <<>> ELSE Head(ss) \o Concat(Tail(ss))

IsBinary(s) == \A i \in 1..Len(s) : s[i] \in {0, 1}

\* layer sizes as the caller gave them
ArgH == args.n_hidden.val

ArgV == args.n_observe.val

\* a positive integer: an int (True counts as the integer 1) that is at least 1
PositiveInteger(x) == x.kind \in {"int", "bool"} /\ x.val >= 1

\* C1: once sample() has finished it has raised nothing and has returned exactly
\* n_visible entries, each 0 or 1, whatever the layer sizes of the instance
C1_SampleReturnsVisibleVector ==
    (pc = "idle" /\ done = "sample") =>
        /\ err = "none"
        /\ Len(Concat(ret)) = ArgV
        /\ IsBinary(Concat(ret))

\* C2: the constructor raises ValueError exactly when n_hidden or n_observe is not a
\* positive integer, it raises before any attribute exists, and it completes for
\* every pair of positive integers
C2_ConstructorRejects ==
    /\ pc = "raised" =>
          /\ err = "ValueError"
          /\ ~(PositiveInteger(args.n_hidden) /\ PositiveInteger(args.n_observe))
    /\ pc \in {"init_check_observe", "init_params", "idle"} => PositiveInteger(args.n_hidden)
    /\ pc \in {"init_params", "idle"} => PositiveInteger(args.n_observe)
    /\ pc \in {"new", "init_check_hidden", "init_check_observe", "init_params", "raised"} =>
          attrs = {} /\ self = NoAttrs
    /\ pc = "idle" => err = "none" /\ attrs = AllAttrs

C2_Witness ==
    /\ pc = "raised"
    /\ args.n_hidden = PyInt(2)
    /\ args.n_observe = PyFloat(20)

\* C3: _sample_binary raises ValueError exactly when some entry of probs is below 0
\* or above 1, and it reaches its draw only with every entry in [0, 1]
C3_SampleBinaryRejects ==
    LET bad == \E i \in 1..Len(prim.probs) : prim.probs[i] < 0 \/ prim.probs[i] > One
    IN  /\ pc = "sb_draw" => ~bad
        /\ (pc = "idle" /\ done = "_sample_binary") =>
              /\ err = "ValueError" <=> bad
              /\ bad => prim.out = <<>>

C3_Witness ==
    /\ pc = "idle"
    /\ done = "_sample_binary"
    /\ err = "ValueError"
    /\ prim.probs = <<One \div 2, -(One \div 10)>>

\* C4: a completed construction leaves W with n_visible rows of n_hidden entries,
\* b_v with n_visible zeros and b_h with n_hidden zeros
C4_ConstructedShapes ==
    (pc = "idle" /\ done = "__init__") =>
        /\ Len(self.W) = ArgV
        /\ \A i \in 1..Len(self.W) : Len(self.W[i]) = ArgH
        /\ Len(self.b_v) = ArgV
        /\ Len(self.b_h) = ArgH
        /\ \A i \in 1..Len(self.b_v) : self.b_v[i] = 0
        /\ \A j \in 1..Len(self.b_h) : self.b_h[j] = 0

C4_Witness ==
    /\ pc = "idle"
    /\ done = "__init__"
    /\ args.n_hidden = PyInt(1)
    /\ args.n_observe = PyInt(2)

\* C5: for probabilities in [0, 1], _sample_binary returns as many entries as it was
\* given, each 0 or 1, 0 where the probability is 0 and 1 where it is 1
C5_SampleBinaryDraws ==
    (pc = "idle" /\ done = "_sample_binary" /\ err = "none") =>
        /\ Len(prim.out) = Len(prim.probs)
        /\ \A i \in 1..Len(prim.out) :
              /\ prim.out[i] \in {0, 1}
              /\ prim.probs[i] = 0 => prim.out[i] = 0
              /\ prim.probs[i] = One => prim.out[i] = 1

C5_Witness ==
    /\ pc = "idle"
    /\ done = "_sample_binary"
    /\ prim.probs = <<0, One, One \div 2>>
    /\ prim.out = <<0, 1, 1>>

\* C6: in every state after construction, during and after train and sample, failed
\* or not, n_hidden and n_observe are the constructor's arguments, W has n_visible
\* rows of n_hidden entries, b_v has n_visible entries and b_h has n_hidden entries
C6_SizesFixed ==
    /\ attrs = AllAttrs
    /\ self.n_hidden = args.n_hidden
    /\ self.n_observe = args.n_observe
    /\ Len(self.W) = ArgV
    /\ \A i \in 1..Len(self.W) : Len(self.W[i]) = ArgH
    /\ Len(self.b_v) = ArgV
    /\ Len(self.b_h) = ArgH

C6_Witness ==
    /\ pc = "idle"
    /\ done = "sample"
    /\ counts.draws > 0
    /\ ArgV > ArgH
    /\ self.b_v # Zeros(ArgV)

\* the positions inside sample
SamplePcs == {"h_prob", "h_sample", "v_prob", "v"}

\* C7: no step of sample, from its call to its return, changes an attribute of the
\* instance
C7_SampleLeavesParameters ==
    [][(pc \in SamplePcs \/ pc' \in SamplePcs) => (self' = self /\ attrs' = attrs)]_vars

C7_Witness ==
    /\ pc = "h_prob"
    /\ g.k = gibbs_steps
    /\ counts.draws > 0
    /\ self.b_v # Zeros(ArgV)

\* C8: when train has returned, the caller's array holds the rows it held at the
\* call, in the same order
C8_TrainLeavesDataAlone ==
    (pc = "idle" /\ done = "train" /\ err = "none") => data = data0

\* the statements of one batch, in the order of rbm.py:144-179
BatchOrder ==
    <<"h0_prob", "h0_sample", "v1_prob", "v1_sample", "h1_prob", "dW", "db_v", "db_h",
      "W", "b_v", "b_h">>

BatchPcs == {BatchOrder[k] : k \in 1..Len(BatchOrder)}

TrainPcs == {"train_epoch", "train_batch"} \cup BatchPcs

\* the place of a statement in the batch
Idx(p) == CHOOSE k \in 1..Len(BatchOrder) : BatchOrder[k] = p

\* ceil(n / batch_size)
NumBatches(n) == (n + batch_size - 1) \div batch_size

\* how often x occurs in s
Count(s, x) == Cardinality({i \in 1..Len(s) : s[i] = x})

\* t holds the rows of s, each as often as s does
IsPermutation(t, s) ==
    /\ Len(t) = Len(s)
    /\ \A i \in 1..Len(s) : Count(t, s[i]) = Count(s, s[i])

\* what is left of train: epochs first, then batches, then statements of the batch
Rank ==
    LET perEpoch == (Len(BatchOrder) + 1) * (MaxCells + 1) + 2
        left == (epochs - loc.epoch) * perEpoch
    IN  IF pc = "train_epoch" THEN left
        ELSE IF pc = "train_batch" THEN left - 1 - (loc.i \div batch_size) * (Len(BatchOrder) + 1)
        ELSE left - 1 - (loc.i \div batch_size) * (Len(BatchOrder) + 1) - Idx(pc)

C9_State ==
    /\ pc \in TrainPcs =>
          /\ Rank >= 0
          /\ ENABLED Next
          /\ IsPermutation(data_flat, data0)
          /\ counts.epochs = loc.epoch
          /\ pc # "train_epoch" =>
                /\ Concat(seen) = SubSeq(data_flat, 1, Len(Concat(seen)))
                /\ \A k \in 1..Len(seen) :
                      /\ Len(seen[k]) \in 1..batch_size
                      /\ k < NumBatches(n_samples) => Len(seen[k]) = batch_size
                /\ loc.i = batch_size * (Len(seen) - (IF pc \in BatchPcs THEN 1 ELSE 0))
                /\ counts.updates = loc.epoch * NumBatches(n_samples) + loc.i \div batch_size
          /\ (pc = "train_batch" /\ loc.i >= n_samples) =>
                /\ Concat(seen) = data_flat
                /\ Len(seen) = NumBatches(n_samples)
          /\ pc = "train_epoch" => counts.updates = loc.epoch * NumBatches(n_samples)
    /\ (pc = "idle" /\ done = "train" /\ err = "none") =>
          /\ counts.epochs = epochs
          /\ counts.updates = epochs * NumBatches(Len(data0))

\* C9: train on n_samples >= 1 rows of width n_visible always comes to its end, after
\* exactly `epochs` epochs; in every epoch the rows are a permutation of the rows
\* passed in, the batches are consecutive runs of batch_size rows, the last one
\* possibly shorter, that together are the whole reordered array, and the parameters
\* are updated once per batch, epochs * ceil(n_samples / batch_size) times in all
C9_EpochsAndBatches ==
    /\ []C9_State
    /\ [][(pc \in TrainPcs) => (pc' = "idle" \/ Rank' < Rank)]_vars

C9_Witness ==
    /\ pc = "idle"
    /\ done = "train"
    /\ err = "none"
    /\ Len(data0) > batch_size
    /\ Len(data0) % batch_size # 0
    /\ counts.updates = epochs * 2

\* C10: inside a batch the statements run in the order h0_prob, h0_sample, v1_prob,
\* v1_sample, h1_prob, dW, db_v, db_h, W, b_v, b_h (two sampling calls, h1_prob being
\* the probabilities themselves); every quantity up to the three gradients is
\* computed from W, b_v and b_h as they were when the batch began, and none of the
\* three is written before all three gradients exist
C10_BatchOrder ==
    pc \in BatchPcs =>
        LET k == Idx(pc)
            W0 == start.W
        IN  /\ trace = SubSeq(BatchOrder, 1, k - 1)
            /\ k <= Idx("W") => self.W = start.W
            /\ k <= Idx("b_v") => self.b_v = start.b_v
            /\ self.b_h = start.b_h
            /\ k > Idx("h0_prob") =>
                  loc.h0_prob = _sigmoid(AddRow(Dot(loc.v0, W0, ArgV, ArgH), start.b_h))
            /\ k > Idx("h0_sample") =>
                  /\ Len(loc.h0_sample) = Len(loc.v0)
                  /\ \A r \in 1..Len(loc.h0_sample) :
                        Len(loc.h0_sample[r]) = ArgH /\ IsBinary(loc.h0_sample[r])
            /\ k > Idx("v1_prob") =>
                  loc.v1_prob =
                      _sigmoid(AddRow(Dot(loc.h0_sample, Transpose(W0, ArgV, ArgH), ArgH, ArgV),
                                      start.b_v))
            /\ k > Idx("v1_sample") =>
                  /\ Len(loc.v1_sample) = Len(loc.v0)
                  /\ \A r \in 1..Len(loc.v1_sample) :
                        Len(loc.v1_sample[r]) = ArgV /\ IsBinary(loc.v1_sample[r])
            /\ k > Idx("h1_prob") =>
                  loc.h1_prob = _sigmoid(AddRow(Dot(loc.v1_sample, W0, ArgV, ArgH), start.b_h))
            /\ k > Idx("dW") =>
                  loc.dW = GradW(loc.v0, loc.h0_sample, loc.v1_sample, loc.h1_prob, ArgV, ArgH)
            /\ k > Idx("db_v") => loc.db_v = GradBv(loc.v0, loc.v1_sample, ArgV)
            /\ k > Idx("db_h") => loc.db_h = GradBh(loc.h0_sample, loc.h1_prob, ArgH)
            /\ k > Idx("W") =>
                  self.W = [i \in 1..ArgV |-> [j \in 1..ArgH |-> W0[i][j] + Step(loc.dW[i][j])]]
            /\ k > Idx("b_v") =>
                  self.b_v = [i \in 1..ArgV |-> start.b_v[i] + Step(loc.db_v[i])]
            /\ Count(trace, "h0_sample") + Count(trace, "v1_sample")
                   = (IF k > Idx("v1_sample") THEN 2 ELSE IF k > Idx("h0_sample") THEN 1 ELSE 0)

C10_Witness ==
    /\ pc = "b_h"
    /\ Len(loc.v0) = batch_size
    /\ self.W # start.W
    /\ self.b_v # start.b_v
    /\ loc.epoch > 0

====
